---- MODULE Spec2Model ----
(***************************************************************************)
(* criterion-inverted-throughput: InvertedThroughput wraps criterion's     *)
(* WallTime measurement and overrides scale_throughputs so that a batch of *)
(* durations is reported as time per element / byte (src/src/lib.rs).      *)
(*                                                                         *)
(* f64 values are modelled as exact extended rationals                     *)
(*     sign * (p / q) * 2^a * 5^b,   p, q coprime to 10 and to each other, *)
(* together with the IEEE-754 special values +inf, -inf and NaN that the   *)
(* divisions of the code produce.  Rounding is not modelled: every finite  *)
(* result is the exact quotient or product.                                *)
(*                                                                         *)
(* Labels are the strings of the code, except that the micro sign of the   *)
(* label of microseconds is written u: "us" stands for the code's label    *)
(* of microseconds, "us/elem" and "us/byte" for its compound labels.  No   *)
(* other label starts with u, so str::starts_with decides as in the code.  *)
(***************************************************************************)
EXTENDS Integers, Sequences, FiniteSets, TLC

(***************************************************************************)
(* Bounds of the model.                                                    *)
(***************************************************************************)
\* longest batch (values: &mut [f64]) a caller passes
MaxLen == 2
\* typical values range over 10^0 .. 10^(3 * MaxScale) nanoseconds
MaxScale == 4
\* number of threads calling into the same InvertedThroughput
NumCallers == 2
\* latest instant of the wall clock read by start / end
MaxClock == 2

(***************************************************************************)
(* Integer helpers.  Huge is the largest machine integer; a product that   *)
(* would pass it saturates to Huge.                                        *)
(***************************************************************************)
Huge == (1073741824 - 1) + 1073741824

Abs(x) == IF x < 0 THEN -x ELSE x

RECURSIVE Gcd(_, _)
Gcd(x, y) == IF y = 0 THEN x ELSE Gcd(y, x % y)

\* multiplicity of the factor f in n > 0
RECURSIVE Mult(_, _)
Mult(n, f) == IF n % f = 0 THEN 1 + Mult(n \div f, f) ELSE 0

\* n > 0 with every factor f removed
RECURSIVE Strip(_, _)
Strip(n, f) == IF n % f = 0 THEN Strip(n \div f, f) ELSE n

SatMul(x, y) ==
    IF x = 0 \/ y = 0 THEN 0
    ELSE IF x >= Huge \/ y >= Huge \/ x > (Huge - 1) \div y THEN Huge
    ELSE x * y

RECURSIVE SatPow(_, _)
SatPow(base, n) == IF n <= 0 THEN 1 ELSE SatMul(base, SatPow(base, n - 1))

(***************************************************************************)
(* f64 values.                                                             *)
(***************************************************************************)
Zero == [k |-> "fin", s |-> 0, p |-> 0, q |-> 1, a |-> 0, b |-> 0]

NaN == [k |-> "nan", s |-> 0, p |-> 0, q |-> 1, a |-> 0, b |-> 0]

Inf(sign) == [k |-> "inf", s |-> sign, p |-> 0, q |-> 1, a |-> 0, b |-> 0]

\* the finite value sign * (p / q) * 2^a * 5^b in normal form
Mk(sign, p, q, a, b) ==
    IF sign = 0 \/ p = 0 THEN Zero
    ELSE LET p1 == Strip(Strip(p, 2), 5)
             q1 == Strip(Strip(q, 2), 5)
             g == Gcd(p1, q1)
         IN [k |-> "fin", s |-> sign, p |-> p1 \div g, q |-> q1 \div g,
             a |-> a + Mult(p, 2) - Mult(q, 2),
             b |-> b + Mult(p, 5) - Mult(q, 5)]

\* m * 10^e, the decimal literal m e<e>
Dec(m, e) == Mk(IF m < 0 THEN -1 ELSE 1, Abs(m), 1, e, e)

\* u64 as f64
FromNat(n) == Dec(n, 0)

IsNaN(x) == x.k = "nan"
IsInf(x) == x.k = "inf"
IsFinite(x) == x.k = "fin"
IsZero(x) == x.k = "fin" /\ x.s = 0

\* sign of x, a zero counting as +0
Sgn(x) == IF x.s = 0 THEN 1 ELSE x.s

\* x / y of IEEE-754
Div(x, y) ==
    IF IsNaN(x) \/ IsNaN(y) THEN NaN
    ELSE IF IsInf(x) THEN (IF IsInf(y) THEN NaN ELSE Inf(x.s * Sgn(y)))
    ELSE IF IsInf(y) THEN Zero
    ELSE IF IsZero(y) THEN (IF IsZero(x) THEN NaN ELSE Inf(x.s))
    ELSE Mk(x.s * y.s, x.p * y.q, x.q * y.p, x.a - y.a, x.b - y.b)

\* x * y of IEEE-754
Mul(x, y) ==
    IF IsNaN(x) \/ IsNaN(y) THEN NaN
    ELSE IF IsInf(x) \/ IsInf(y)
         THEN (IF IsZero(x) \/ IsZero(y) THEN NaN ELSE Inf(Sgn(x) * Sgn(y)))
    ELSE Mk(x.s * y.s, x.p * y.p, x.q * y.q, x.a + y.a, x.b + y.b)

\* numerator and denominator of a finite nonzero |x| as integers (saturating)
NumOf(x) == SatMul(x.p, SatMul(SatPow(2, x.a), SatPow(5, x.b)))
DenOf(x) == SatMul(x.q, SatMul(SatPow(2, -x.a), SatPow(5, -x.b)))

\* r < 1 for a finite r > 0; undecidable within the integers only when both
\* numerator and denominator saturate, and then the product overflows
RatioLt1(r) ==
    LET n == NumOf(r)
        d == DenOf(r)
    IN  IF n < Huge /\ d < Huge THEN n < d
        ELSE IF n < Huge THEN TRUE
        ELSE IF d < Huge THEN FALSE
        ELSE Huge * Huge < 0

\* x < y of IEEE-754 (false when either is NaN)
Lt(x, y) ==
    IF IsNaN(x) \/ IsNaN(y) THEN FALSE
    ELSE IF IsInf(x) THEN x.s < 0 /\ ~(IsInf(y) /\ y.s < 0)
    ELSE IF IsInf(y) THEN y.s > 0
    ELSE IF x.s # y.s THEN x.s < y.s
    ELSE IF x.s = 0 THEN FALSE
    ELSE IF x.s > 0 THEN RatioLt1(Div(x, y))
    ELSE RatioLt1(Div(y, x))

\* x == y of IEEE-754 (false when either is NaN)
FEq(x, y) == ~IsNaN(x) /\ ~IsNaN(y) /\ x = y

Le(x, y) == Lt(x, y) \/ FEq(x, y)

(***************************************************************************)
(* criterion's WallTime measurement and its DurationFormatter, the base    *)
(* time formatter InvertedThroughput delegates to.  Durations and instants *)
(* are whole nanoseconds.                                                  *)
(***************************************************************************)
Kinds == {"Bytes", "BytesDecimal", "Elements"}

Throughput(kind, n) == [kind |-> kind, n |-> n]

TimeUnits == {"ps", "ns", "us", "ms", "s"}

\* the display magnitude of a duration of ns nanoseconds
WallTime_scale(ns) ==
    IF Lt(ns, Dec(1, 0)) THEN [factor |-> Dec(1, 3), unit |-> "ps"]
    ELSE IF Lt(ns, Dec(1, 3)) THEN [factor |-> Dec(1, 0), unit |-> "ns"]
    ELSE IF Lt(ns, Dec(1, 6)) THEN [factor |-> Dec(1, -3), unit |-> "us"]
    ELSE IF Lt(ns, Dec(1, 9)) THEN [factor |-> Dec(1, -6), unit |-> "ms"]
    ELSE [factor |-> Dec(1, -9), unit |-> "s"]

WallTime_scale_values(ns, values) ==
    LET c == WallTime_scale(ns)
    IN  [values |-> [i \in DOMAIN values |-> Mul(values[i], c.factor)],
         unit |-> c.unit]

WallTime_scale_for_machines(values) == [values |-> values, unit |-> "ns"]

\* the display magnitude of a rate of per_second units per second, counted
\* in steps of base (1000, or 1024 for the binary byte convention)
WallTime_rate_scale(per_second, base, units) ==
    IF Lt(per_second, FromNat(base)) THEN [denominator |-> FromNat(1), unit |-> units[1]]
    ELSE IF Lt(per_second, FromNat(base * base))
         THEN [denominator |-> FromNat(base), unit |-> units[2]]
    ELSE IF Lt(per_second, FromNat(base * base * base))
         THEN [denominator |-> FromNat(base * base), unit |-> units[3]]
    ELSE [denominator |-> FromNat(base * base * base), unit |-> units[4]]

WallTime_per_second(amount, base, units, typical, values) ==
    LET c == WallTime_rate_scale(Mul(amount, Div(Dec(1, 9), typical)), base, units)
    IN  [values |-> [i \in DOMAIN values |->
                        Div(Mul(amount, Div(Dec(1, 9), values[i])), c.denominator)],
         unit |-> c.unit]

WallTime_scale_throughputs(typical, throughput, values) ==
    CASE throughput.kind = "Bytes" ->
            WallTime_per_second(FromNat(throughput.n), 1024,
                <<"  B/s", "KiB/s", "MiB/s", "GiB/s">>, typical, values)
      [] throughput.kind = "BytesDecimal" ->
            WallTime_per_second(FromNat(throughput.n), 1000,
                <<"  B/s", "KB/s", "MB/s", "GB/s">>, typical, values)
      [] throughput.kind = "Elements" ->
            WallTime_per_second(FromNat(throughput.n), 1000,
                <<" elem/s", "Kelem/s", "Melem/s", "Gelem/s">>, typical, values)

\* Instant::now() is the reading `now` of the wall clock
WallTime_start(now) == now
WallTime_end(i, now) == now - i
WallTime_add(v1, v2) == v1 + v2
WallTime_zero == 0
WallTime_to_f64(val) == FromNat(val)

(***************************************************************************)
(* InvertedThroughput (src/src/lib.rs).                                    *)
(***************************************************************************)
\* struct InvertedThroughput(WallTime): the one field is a unit struct
new == "WallTime"

start(now) == WallTime_start(now)
end(i, now) == WallTime_end(i, now)
add(v1, v2) == WallTime_add(v1, v2)
zero == WallTime_zero
to_f64(val) == WallTime_to_f64(val)

\* (mutant) the magnitude is chosen from typical_value itself
TypicalTime_Undivided(typical_value, units) == typical_value

\* let typical_time = typical_value / units;
TypicalTime(typical_value, units) == Div(typical_value, units)

\* (mutant) `*` for `/`
ValPerUnit_Times(val, units) == Mul(val, units)

\* (mutant) the entry is left as it is
ValPerUnit_Keep(val, units) == val

\* (mutant) the operands the other way round
ValPerUnit_Flipped(val, units) == Div(units, val)

\* (mutant) a zero count is skipped instead of divided by
ValPerUnit_Guarded(val, units) == IF IsZero(units) THEN val ELSE Div(val, units)

\* let val_per_unit = *val / units;
ValPerUnit(val, units) == Div(val, units)

time_per_unit(units, typical_value, values) ==
    LET typical_time == TypicalTime(typical_value, units)
        divided == [i \in DOMAIN values |-> ValPerUnit(values[i], units)]
    IN  WallTime_scale_values(typical_time, divided)

\* (mutant) a slip in one row of the table
static_denom_Typo(time_denom, unit_denom) ==
    CASE unit_denom = "byte" /\ time_denom = "ps" -> "ps/byte"
      [] unit_denom = "byte" /\ time_denom = "ns" -> "ns/byte"
      [] unit_denom = "byte" /\ time_denom = "us" -> "ms/byte"
      [] unit_denom = "byte" /\ time_denom = "ms" -> "ms/byte"
      [] unit_denom = "byte" /\ time_denom = "s" -> "s/byte"
      [] unit_denom = "elem" /\ time_denom = "ps" -> "ps/elem"
      [] unit_denom = "elem" /\ time_denom = "ns" -> "ns/elem"
      [] unit_denom = "elem" /\ time_denom = "us" -> "us/elem"
      [] unit_denom = "elem" /\ time_denom = "ms" -> "ms/elem"
      [] unit_denom = "elem" /\ time_denom = "s" -> "s/elem"
      [] OTHER -> "UNEXPECTED"

static_denom(time_denom, unit_denom) ==
    CASE unit_denom = "byte" /\ time_denom = "ps" -> "ps/byte"
      [] unit_denom = "byte" /\ time_denom = "ns" -> "ns/byte"
      [] unit_denom = "byte" /\ time_denom = "us" -> "us/byte"
      [] unit_denom = "byte" /\ time_denom = "ms" -> "ms/byte"
      [] unit_denom = "byte" /\ time_denom = "s" -> "s/byte"
      [] unit_denom = "elem" /\ time_denom = "ps" -> "ps/elem"
      [] unit_denom = "elem" /\ time_denom = "ns" -> "ns/elem"
      [] unit_denom = "elem" /\ time_denom = "us" -> "us/elem"
      [] unit_denom = "elem" /\ time_denom = "ms" -> "ms/elem"
      [] unit_denom = "elem" /\ time_denom = "s" -> "s/elem"
      [] OTHER -> "UNEXPECTED"

\* (mutant) forwarded to the wrong operation of the base formatter
scale_values_Machines(typical_value, values) == WallTime_scale_for_machines(values)

scale_values(typical_value, values) == WallTime_scale_values(typical_value, values)

\* (mutant) the binary byte convention counted in bits
MatchThroughput_Bits(throughput) ==
    CASE throughput.kind = "Bytes" ->
            [t_val |-> FromNat(throughput.n * 8), t_unit |-> "byte"]
      [] throughput.kind = "BytesDecimal" ->
            [t_val |-> FromNat(throughput.n), t_unit |-> "byte"]
      [] throughput.kind = "Elements" ->
            [t_val |-> FromNat(throughput.n), t_unit |-> "elem"]

\* let (t_val, t_unit) = match *throughput { ... };
MatchThroughput(throughput) ==
    CASE throughput.kind = "Bytes" ->
            [t_val |-> FromNat(throughput.n), t_unit |-> "byte"]
      [] throughput.kind = "BytesDecimal" ->
            [t_val |-> FromNat(throughput.n), t_unit |-> "byte"]
      [] throughput.kind = "Elements" ->
            [t_val |-> FromNat(throughput.n), t_unit |-> "elem"]

\* (mutant) the two arguments swapped
DenomArgs_Swapped(time_label, t_unit) == <<t_unit, time_label>>

\* the two arguments of the call of static_denom, in the order they are passed
DenomArgs(time_label, t_unit) == <<time_label, t_unit>>

scale_throughputs(typical_value, throughput, values) ==
    LET m == MatchThroughput(throughput)
        r == time_per_unit(m.t_val, typical_value, values)
        args == DenomArgs(r.unit, m.t_unit)
    IN  [values |-> r.values, unit |-> static_denom(args[1], args[2])]

scale_for_machines(values) == WallTime_scale_for_machines(values)

(***************************************************************************)
(* The callers.  Each caller owns one batch; a call borrows it mutably     *)
(* for its duration.                                                       *)
(***************************************************************************)
VARIABLES
    self,   \* the InvertedThroughput shared by all callers
    pc,     \* pc[t]: where caller t is in its call
    op,     \* op[t]: the operation caller t is in
    arg,    \* arg[t]: the arguments as passed to the call
    buf,    \* buf[b]: the contents of batch b
    loc,    \* loc[t]: the locals of the call of scale_throughputs
    ret     \* ret[t]: the value returned to caller t

vars == <<self, pc, op, arg, buf, loc, ret>>

Callers == 1 .. NumCallers

\* (mutant) every caller is handed the same batch
BatchOf_Shared(t) == 1

\* the batch behind the `values: &mut [f64]` of caller t
BatchOf(t) == t

RECURSIVE SeqsUpTo(_, _)
SeqsUpTo(S, n) ==
    IF n = 0 THEN {<<>>}
    ELSE LET shorter == SeqsUpTo(S, n - 1)
         IN  shorter \cup {Append(q, x) : q \in {r \in shorter : Len(r) = n - 1}, x \in S}

Counts == {0, 1, 3, 123, 1000}

Throughputs == {Throughput(kind, n) : kind \in Kinds, n \in Counts}

Typicals ==
    {Zero, Dec(-2, 0), Dec(5, -1)} \cup {Dec(m, 3 * k) : m \in {1, 2}, k \in 0 .. MaxScale}

Values == {Zero, Dec(-2, 0), Dec(3, 2)}

Batches == SeqsUpTo(Values, MaxLen)

Inputs == {[typical |-> ty, throughput |-> th, values |-> vs] :
              ty \in Typicals, th \in Throughputs, vs \in Batches}

\* the calls made while several callers run at once
ConcInputs ==
    {[typical |-> Dec(2, 3), throughput |-> Throughput("Elements", 3),
      values |-> <<Dec(3, 2), Dec(-2, 0)>>],
     [typical |-> Dec(5, -1), throughput |-> Throughput("Bytes", 1000),
      values |-> <<Dec(3, 2)>>],
     [typical |-> Dec(1, 9), throughput |-> Throughput("BytesDecimal", 0),
      values |-> <<Zero, Dec(3, 2)>>]}

NoThroughput == Throughput("none", 0)

NoArg == [typical |-> Zero, throughput |-> NoThroughput, values |-> <<>>,
          x |-> 0, y |-> 0]

NoLoc == [t_val |-> Zero, t_unit |-> "", typical_time |-> Zero, i |-> 0,
          time_denom |-> ""]

NoRet == [label |-> "", n |-> 0, f |-> Zero]

Init ==
    /\ self = new
    /\ pc = [t \in Callers |-> "idle"]
    /\ op = [t \in Callers |-> "none"]
    /\ arg = [t \in Callers |-> NoArg]
    /\ buf = [t \in Callers |-> <<>>]
    /\ loc = [t \in Callers |-> NoLoc]
    /\ ret = [t \in Callers |-> NoRet]

\* caller t enters scale_throughputs(typical_value, throughput, values)
CallScaleThroughputs(t, inputs) ==
    /\ pc[t] = "idle"
    /\ \E in \in inputs :
          /\ arg' = [arg EXCEPT ![t] = [NoArg EXCEPT !.typical = in.typical,
                                                     !.throughput = in.throughput,
                                                     !.values = in.values]]
          /\ buf' = [buf EXCEPT ![BatchOf(t)] = in.values]
    /\ pc' = [pc EXCEPT ![t] = "match"]
    /\ op' = [op EXCEPT ![t] = "scale_throughputs"]
    /\ UNCHANGED <<self, loc, ret>>

\* let (t_val, t_unit) = match *throughput { ... };
Match(t) ==
    /\ pc[t] = "match"
    /\ LET m == MatchThroughput(arg[t].throughput)
       IN  loc' = [loc EXCEPT ![t].t_val = m.t_val, ![t].t_unit = m.t_unit]
    /\ pc' = [pc EXCEPT ![t] = "typical"]
    /\ UNCHANGED <<self, op, arg, buf, ret>>

\* time_per_unit: let typical_time = typical_value / units;
Typical(t) ==
    /\ pc[t] = "typical"
    /\ loc' = [loc EXCEPT ![t].typical_time = TypicalTime(arg[t].typical, loc[t].t_val),
                          ![t].i = 1]
    /\ pc' = [pc EXCEPT ![t] = "loop"]
    /\ UNCHANGED <<self, op, arg, buf, ret>>

\* time_per_unit: one round of `for val in &mut *values`
LoopStep(t) ==
    /\ pc[t] = "loop"
    /\ loc[t].i <= Len(buf[BatchOf(t)])
    /\ buf' = [buf EXCEPT ![BatchOf(t)][loc[t].i] = ValPerUnit(@, loc[t].t_val)]
    /\ loc' = [loc EXCEPT ![t].i = @ + 1]
    /\ UNCHANGED <<self, pc, op, arg, ret>>

\* time_per_unit: self.0.formatter().scale_values(typical_time, values)
Delegate(t) ==
    /\ pc[t] = "loop"
    /\ loc[t].i > Len(buf[BatchOf(t)])
    /\ LET r == WallTime_scale_values(loc[t].typical_time, buf[BatchOf(t)])
       IN  /\ buf' = [buf EXCEPT ![BatchOf(t)] = r.values]
           /\ loc' = [loc EXCEPT ![t].time_denom = r.unit]
    /\ pc' = [pc EXCEPT ![t] = "denom"]
    /\ UNCHANGED <<self, op, arg, ret>>

\* self.static_denom(<time label>, t_unit), the value of scale_throughputs
StaticDenom(t) ==
    /\ pc[t] = "denom"
    /\ LET args == DenomArgs(loc[t].time_denom, loc[t].t_unit)
       IN  ret' = [ret EXCEPT ![t].label = static_denom(args[1], args[2])]
    /\ pc' = [pc EXCEPT ![t] = "done"]
    /\ UNCHANGED <<self, op, arg, buf, loc>>

\* caller t enters and leaves the single-step operation `name`
Finish(t, name, a, values, r) ==
    /\ pc' = [pc EXCEPT ![t] = "done"]
    /\ op' = [op EXCEPT ![t] = name]
    /\ arg' = [arg EXCEPT ![t] = a]
    /\ buf' = [buf EXCEPT ![BatchOf(t)] = values]
    /\ ret' = [ret EXCEPT ![t] = r]
    /\ UNCHANGED <<self, loc>>

ScaleValues(t) ==
    /\ pc[t] = "idle"
    /\ \E ty \in Typicals, vs \in Batches :
          LET r == scale_values(ty, vs)
          IN  Finish(t, "scale_values", [NoArg EXCEPT !.typical = ty, !.values = vs],
                     r.values, [NoRet EXCEPT !.label = r.unit])

ScaleForMachines(t) ==
    /\ pc[t] = "idle"
    /\ \E vs \in Batches :
          LET r == scale_for_machines(vs)
          IN  Finish(t, "scale_for_machines", [NoArg EXCEPT !.values = vs],
                     r.values, [NoRet EXCEPT !.label = r.unit])

Start(t) ==
    /\ pc[t] = "idle"
    /\ \E now \in 0 .. MaxClock :
          Finish(t, "start", [NoArg EXCEPT !.y = now], <<>>,
                 [NoRet EXCEPT !.n = start(now)])

End(t) ==
    /\ pc[t] = "idle"
    /\ \E i \in 0 .. MaxClock : \E now \in i .. MaxClock :
          Finish(t, "end", [NoArg EXCEPT !.x = i, !.y = now], <<>>,
                 [NoRet EXCEPT !.n = end(i, now)])

Add(t) ==
    /\ pc[t] = "idle"
    /\ \E v1 \in 0 .. MaxClock, v2 \in 0 .. MaxClock :
          Finish(t, "add", [NoArg EXCEPT !.x = v1, !.y = v2], <<>>,
                 [NoRet EXCEPT !.n = add(v1, v2)])

ZeroValue(t) ==
    /\ pc[t] = "idle"
    /\ Finish(t, "zero", NoArg, <<>>, [NoRet EXCEPT !.n = zero])

ToF64(t) ==
    /\ pc[t] = "idle"
    /\ \E v \in 0 .. MaxClock :
          Finish(t, "to_f64", [NoArg EXCEPT !.x = v], <<>>,
                 [NoRet EXCEPT !.f = to_f64(v)])

\* the caller drops the result and is ready for its next call
Return(t) ==
    /\ pc[t] = "done"
    /\ pc' = [pc EXCEPT ![t] = "idle"]
    /\ op' = [op EXCEPT ![t] = "none"]
    /\ arg' = [arg EXCEPT ![t] = NoArg]
    /\ buf' = [buf EXCEPT ![BatchOf(t)] = <<>>]
    /\ loc' = [loc EXCEPT ![t] = NoLoc]
    /\ ret' = [ret EXCEPT ![t] = NoRet]
    /\ UNCHANGED self

\* one caller, every operation, the full range of inputs
Next ==
    \/ CallScaleThroughputs(1, Inputs)
    \/ Match(1)
    \/ Typical(1)
    \/ LoopStep(1)
    \/ Delegate(1)
    \/ StaticDenom(1)
    \/ ScaleValues(1)
    \/ ScaleForMachines(1)
    \/ Start(1)
    \/ End(1)
    \/ Add(1)
    \/ ZeroValue(1)
    \/ ToF64(1)
    \/ Return(1)

Spec == Init /\ [][Next]_vars

\* several callers in scale_throughputs at once, each on its own batch
NextConc ==
    \E t \in Callers :
        \/ CallScaleThroughputs(t, ConcInputs)
        \/ Match(t)
        \/ Typical(t)
        \/ LoopStep(t)
        \/ Delegate(t)
        \/ StaticDenom(t)
        \/ Return(t)

SpecConc == Init /\ [][NextConc]_vars

(***************************************************************************)
(* The helpers of the test suite (mod tests).                              *)
(***************************************************************************)
\* str::starts_with
StartsWith(str, prefix) ==
    Len(str) >= Len(prefix) /\ SubSeq(str, 1, Len(prefix)) = prefix

\* seconds from a value in the unit its label starts with; the panic on an
\* unknown label is the value NaN
normalize_time(denom, value) ==
    IF StartsWith(denom, "ps") THEN Div(value, Dec(1, 12))
    ELSE IF StartsWith(denom, "ns") THEN Div(value, Dec(1, 9))
    ELSE IF StartsWith(denom, "us") THEN Div(value, Dec(1, 6))
    ELSE IF StartsWith(denom, "ms") THEN Div(value, Dec(1, 3))
    ELSE IF StartsWith(denom, "s") THEN value
    ELSE NaN

\* units from a value in the multiple its label starts with
normalize_amount(denom, value) ==
    IF StartsWith(denom, "G") THEN Mul(value, Dec(1, 9))
    ELSE IF StartsWith(denom, "M") THEN Mul(value, Dec(1, 6))
    ELSE IF StartsWith(denom, "K") THEN Mul(value, Dec(1, 3))
    ELSE value

\* |a - b| <= |a| * 1e-12
NearlyEq(x, y) ==
    IF ~IsFinite(x) \/ ~IsFinite(y) THEN FALSE
    ELSE IF IsZero(x) \/ IsZero(y) THEN IsZero(x) /\ IsZero(y)
    ELSE IF x.s # y.s THEN FALSE
    ELSE LET r == Div(y, x)
             n == NumOf(r)
             d == DenOf(r)
         IN  IF n = d /\ n < Huge THEN TRUE
             ELSE IF n < Huge /\ d < Huge
                  THEN Abs(n - d) <= (d \div 1000000) \div 1000000
             ELSE Huge * Huge < 0

\* |a * b - 1| < 0.075
NearlyInversion(x, y) ==
    LET m == Mul(x, y)
    IN  IF ~IsFinite(m) \/ m.s <= 0 THEN FALSE
        ELSE LET n == NumOf(m)
                 d == DenOf(m)
             IN  IF n < Huge /\ d < Huge
                 THEN SatMul(Abs(n - d), 40) < SatMul(d, 3) /\ SatMul(d, 3) < Huge
                 ELSE IF n < Huge \/ d < Huge THEN FALSE
                 ELSE Huge * Huge < 0

(***************************************************************************)
(* What the claims speak of.                                               *)
(***************************************************************************)
\* caller t has come back from scale_throughputs and still holds the result
Scaled(t) == pc[t] = "done" /\ op[t] = "scale_throughputs"

Count(t) == arg[t].throughput.n

Category(kind) == IF kind = "Elements" THEN "elem" ELSE "byte"

Labels == {u \o "/" \o c : u \in TimeUnits, c \in {"elem", "byte"}}

Degenerate(x) == IsInf(x) \/ IsNaN(x)

\* the base formatter's scale_values on the arguments of caller t
BaseValues(t) == WallTime_scale_values(arg[t].typical, arg[t].values)

\* the base formatter's scale_throughputs on the arguments of caller t
BaseThroughputs(t) ==
    WallTime_scale_throughputs(arg[t].typical, arg[t].throughput, arg[t].values)

\* the magnitude the base formatter chooses for typical_value / count
Chosen(t) == WallTime_scale(Div(arg[t].typical, FromNat(Count(t))))

C2_Label ==
    \A t \in Callers :
        Scaled(t) =>
            /\ Chosen(t).unit \in TimeUnits
            /\ ret[t].label = Chosen(t).unit \o "/" \o Category(arg[t].throughput.kind)

C2_Witness ==
    /\ Scaled(1) /\ ret[1].label = "us/byte"
    /\ arg[1].throughput = Throughput("BytesDecimal", 1000)
    /\ arg[1].typical = Dec(2, 6)

\* C3 (Sentinel unreachable): for every spec, count (0 included), typical
\* value and batch, static_denom is handed a time unit of {ps, ns, µs, ms, s}
\* and a category of {elem, byte}, and scale_throughputs never returns the
\* sentinel.
C3_NoSentinel ==
    \A t \in Callers :
        /\ pc[t] \in {"denom", "done"} /\ op[t] = "scale_throughputs" =>
              /\ loc[t].time_denom \in TimeUnits
              /\ loc[t].t_unit \in {"elem", "byte"}
        /\ Scaled(t) => ret[t].label # "UNEXPECTED" /\ ret[t].label \in Labels

C3_Witness ==
    /\ Scaled(1) /\ Count(1) = 0 /\ arg[1].typical = Zero
    /\ ret[1].label = "s/elem"

\* C4 as claimed: for a count >= 1 and every entry i of every batch, the
\* product of the entry of scale_throughputs in seconds per unit and the
\* entry of the base scale_throughputs in units per second differs from 1
\* by less than 0.075.
C4_Original ==
    \A t \in Callers :
        Scaled(t) /\ Count(t) >= 1 =>
            \A i \in DOMAIN buf[t] :
                NearlyInversion(normalize_time(ret[t].label, buf[t][i]),
                                normalize_amount(BaseThroughputs(t).unit,
                                                 BaseThroughputs(t).values[i]))

\* C4 (Inversion), amended: the same for every entry whose input is not zero.
C4_Inversion ==
    \A t \in Callers :
        Scaled(t) /\ Count(t) >= 1 =>
            \A i \in DOMAIN buf[t] :
                ~IsZero(arg[t].values[i]) =>
                    NearlyInversion(normalize_time(ret[t].label, buf[t][i]),
                                    normalize_amount(BaseThroughputs(t).unit,
                                                     BaseThroughputs(t).values[i]))

\* the binary byte convention at its largest multiple
C4_Witness ==
    /\ Scaled(1) /\ arg[1].throughput = Throughput("Bytes", 3)
    /\ BaseThroughputs(1).unit = "GiB/s"
    /\ Len(buf[1]) >= 1 /\ ~IsZero(arg[1].values[1])

\* C5 (Order and length preservation): the batch keeps its length, entry i
\* of the result is what the call leaves of the one-entry batch <<input[i]>>,
\* and for a count >= 1 input[i] <= input[j] implies output[i] <= output[j].
C5_OrderLength ==
    \A t \in Callers :
        Scaled(t) =>
            /\ Len(buf[t]) = Len(arg[t].values)
            /\ \A i \in DOMAIN buf[t] :
                  buf[t][i] = scale_throughputs(arg[t].typical, arg[t].throughput,
                                                <<arg[t].values[i]>>).values[1]
            /\ Count(t) >= 1 =>
                  \A i, j \in DOMAIN buf[t] :
                      Le(arg[t].values[i], arg[t].values[j]) => Le(buf[t][i], buf[t][j])

C5_Witness ==
    /\ Scaled(1) /\ Count(1) = 3 /\ Len(buf[1]) = 2
    /\ Lt(arg[1].values[2], arg[1].values[1]) /\ Lt(buf[1][2], buf[1][1])

\* C6 (Single scale per batch): the magnitude is the one of typical_time =
\* typical_value / count, every entry is its input divided by count and
\* multiplied by the factor of that magnitude, and output[i] / input[i] is
\* the same for all entries with input[i] # 0.
C6_SingleScale ==
    \A t \in Callers :
        Scaled(t) =>
            /\ loc[t].typical_time = Div(arg[t].typical, FromNat(Count(t)))
            /\ loc[t].time_denom = Chosen(t).unit
            /\ \A i \in DOMAIN buf[t] :
                  buf[t][i] = Mul(Div(arg[t].values[i], FromNat(Count(t))), Chosen(t).factor)
            /\ \A i, j \in DOMAIN buf[t] :
                  ~IsZero(arg[t].values[i]) /\ ~IsZero(arg[t].values[j]) =>
                      Div(buf[t][i], arg[t].values[i]) = Div(buf[t][j], arg[t].values[j])

\* typical_value alone would pick µs and the first entry alone ps, while
\* typical_time picks ns
C6_Witness ==
    /\ Scaled(1) /\ Count(1) = 1000 /\ arg[1].typical = Dec(2, 3)
    /\ loc[1].time_denom = "ns"
    /\ arg[1].values = <<Dec(3, 2), Dec(-2, 0)>>
    /\ WallTime_scale(arg[1].typical).unit = "us"
    /\ WallTime_scale(Div(arg[1].values[1], FromNat(1000))).unit = "ps"

\* C7 (Pure delegation): scale_values, scale_for_machines, start, end, add,
\* zero and to_f64 return what the wrapped WallTime returns and leave the
\* batch as it leaves it; the result of scale_throughputs differs from the
\* base one.
C7_Delegation ==
    \A t \in Callers :
        pc[t] = "done" =>
            /\ op[t] = "scale_values" =>
                  /\ buf[t] = BaseValues(t).values
                  /\ ret[t].label = BaseValues(t).unit
            /\ op[t] = "scale_for_machines" =>
                  /\ buf[t] = WallTime_scale_for_machines(arg[t].values).values
                  /\ ret[t].label = WallTime_scale_for_machines(arg[t].values).unit
            /\ op[t] = "start" => ret[t].n = WallTime_start(arg[t].y)
            /\ op[t] = "end" => ret[t].n = WallTime_end(arg[t].x, arg[t].y)
            /\ op[t] = "add" => ret[t].n = WallTime_add(arg[t].x, arg[t].y)
            /\ op[t] = "zero" => ret[t].n = WallTime_zero
            /\ op[t] = "to_f64" => ret[t].f = WallTime_to_f64(arg[t].x)
            /\ op[t] = "scale_throughputs" => ret[t].label # BaseThroughputs(t).unit

C7_Witness ==
    /\ pc[1] = "done" /\ op[1] = "scale_values"
    /\ arg[1].typical = Dec(2, 3) /\ Len(buf[1]) = 2
    /\ buf[1] # arg[1].values /\ ret[1].label = "us"

\* C8 (Zero count): with count = 0 scale_throughputs still returns a label
\* of {ps, ns, µs, ms, s} x {elem, byte}, every entry of the batch is left
\* infinite or NaN, and an empty batch is left empty.
C8_ZeroCount ==
    \A t \in Callers :
        /\ op[t] = "scale_throughputs" /\ Count(t) = 0 /\ pc[t] \in {"denom", "done"} =>
              /\ Len(buf[t]) = Len(arg[t].values)
              /\ \A i \in DOMAIN buf[t] : Degenerate(buf[t][i])
        /\ Scaled(t) /\ Count(t) = 0 => ret[t].label \in Labels
        /\ Scaled(t) /\ arg[t].values = <<>> => buf[t] = <<>>

C8_Witness ==
    /\ Scaled(1) /\ Count(1) = 0 /\ arg[1].typical = Dec(2, 3)
    /\ arg[1].values = <<Zero, Dec(-2, 0)>>
    /\ buf[1] = <<NaN, Inf(-1)>>

\* C9 (Independence of concurrent calls): under every interleaving, a call
\* of scale_throughputs ends with the batch and the label it would have had
\* running alone, nobody else touches a caller's batch, and the component
\* stays as constructed.
C9_Independence ==
    /\ self = new
    /\ \A t \in Callers :
          /\ pc[t] = "idle" => buf[t] = <<>>
          /\ pc[t] \in {"match", "typical"} => buf[t] = arg[t].values
          /\ pc[t] = "loop" =>
                buf[t] = [i \in DOMAIN arg[t].values |->
                             IF i < loc[t].i
                             THEN Div(arg[t].values[i], FromNat(Count(t)))
                             ELSE arg[t].values[i]]
          /\ Scaled(t) =>
                LET alone == scale_throughputs(arg[t].typical, arg[t].throughput,
                                               arg[t].values)
                IN  buf[t] = alone.values /\ ret[t].label = alone.unit

\* caller 1 is back while caller 2 is half way through its batch
C9_Witness ==
    /\ Scaled(1) /\ pc[2] = "loop" /\ loc[2].i = 2 /\ Len(buf[2]) = 2
    /\ arg[1] # arg[2]

\* C10 (Byte conventions): for every count n, typical value and batch,
\* Bytes(n), BytesDecimal(n) and Elements(n) leave the same batch; the two
\* byte conventions return the same label, of category byte, and Elements(n)
\* the label of the same time unit and category elem.
C10_ByteConventions ==
    \A t \in Callers :
        Scaled(t) =>
            \A kind \in Kinds :
                LET other == scale_throughputs(arg[t].typical,
                                               Throughput(kind, Count(t)), arg[t].values)
                IN  /\ buf[t] = other.values
                    /\ Category(kind) = Category(arg[t].throughput.kind) <=>
                          ret[t].label = other.unit
                    /\ StartsWith(ret[t].label, loc[t].time_denom \o "/")
                    /\ StartsWith(other.unit, loc[t].time_denom \o "/")
                    /\ ret[t].label = loc[t].time_denom \o "/"
                                         \o Category(arg[t].throughput.kind)

C10_Witness ==
    /\ Scaled(1) /\ arg[1].throughput = Throughput("Bytes", 1000)
    /\ ret[1].label = "ns/byte" /\ Len(buf[1]) = 2

====
